---- MODULE Spec2Model ----
(***************************************************************************)
(* Model of the event persistence subsystem of evnt (src/src/event.rs,     *)
(* src/src/utils.rs, src/src/lib.rs): one file per event in the events     *)
(* directory, named by the decimal form of the event's random id.          *)
(*                                                                         *)
(* Widths.  TLC integers are 32 bits wide, so the u128 id space is scaled  *)
(* to 0..IdMax: rand::random draws from 0..IdMax and str::parse::<u128>    *)
(* overflows above IdMax.  The bincode layout keeps its field widths (u64  *)
(* little-endian length prefixes, a one-byte Option tag, a 16-byte         *)
(* little-endian id).                                                      *)
(***************************************************************************)
EXTENDS Integers, Sequences, FiniteSets, TLC

VARIABLES
    dirExists,  \* whether App::events_dir exists on disk
    dir,        \* the entries of App::events_dir: file name -> [kind, bytes]
    held,       \* the Event values the caller holds in memory
    live,       \* history: the events stored and not deleted since, by successful calls
    used,       \* history: the events passed to a successful store or delete_file
    last,       \* the last call: its operation, argument and result
    obstacle,   \* what keeps the events directory from being created, if anything
    procs       \* the processes that share the directory: each one's position and locals

vars == <<dirExists, dir, held, live, used, last, obstacle, procs>>

\* ------------------------------------------------------------------ bounds

\* u128::MAX, scaled: ids are 0..IdMax
IdMax == 10

\* how many Event values the caller holds at once
MaxEvents == 2

\* how many Event values the caller holds at once while foreign entries
\* may appear in the events directory
MaxEventsForeign == 1

\* ------------------------------------------------------------ value spaces

Ids == 0..IdMax

NoId == -1

\* Option::None of Event::description
None == <<"None">>

Some(s) == <<"Some", s>>

\* event names and descriptions are UTF-8 text, as sequences of bytes
Names == {<<97>>, <<98>>}

Descriptions == {None}

Times == {0}

\* the wider argument sets of the round-trip specification
NamesRT == {<<>>, <<97>>, <<97, 98>>}

DescriptionsRT == {None, Some(<<>>), Some(<<97>>)}

TimesRT == {0, 7, 10}

\* the names and contents of the foreign entries
ForeignNames == {<<"x">>, <<"+", "7">>, <<"0", "7">>, <<"7">>, <<"9", "9">>}

ForeignEntries ==
    {[kind |-> "file", bytes |-> <<>>],
     [kind |-> "file", bytes |-> <<0, 0, 0, 0, 0, 0, 0, 0, 2>>],
     [kind |-> "dir", bytes |-> <<>>]}

\* ------------------------------------------------- id <-> file name (decimal)

Digits == <<"0", "1", "2", "3", "4", "5", "6", "7", "8", "9">>

DigitSet == {Digits[d] : d \in 1..10}

DigitValue == [c \in DigitSet |-> (CHOOSE d \in 1..10 : Digits[d] = c) - 1]

IsDigit(c) == c \in DigitSet

DigitVal(c) == DigitValue[c]

\* mutant: only the last decimal digit is written
to_stringLastDigit(n) == <<Digits[(n % 10) + 1]>>

\* u128's Display, as used by self.id.to_string()
RECURSIVE to_string(_)
to_string(n) ==
    IF n < 10 THEN <<Digits[n + 1]>>
    ELSE to_string(n \div 10) \o <<Digits[(n % 10) + 1]>>

\* the digit loop of str::parse::<u128>: checked multiply-and-add from the
\* left; NoId on a non-digit or on overflow
RECURSIVE ParseDigits(_, _)
ParseDigits(s, acc) ==
    IF s = <<>> THEN acc
    ELSE IF ~IsDigit(Head(s)) THEN NoId
    ELSE LET v == acc * 10 + DigitVal(Head(s))
         IN  IF v > IdMax THEN NoId ELSE ParseDigits(Tail(s), v)

\* name.parse::<u128>(): empty is an error, a lone sign is an error, one
\* leading "+" is accepted, "-" is an invalid digit for an unsigned type
parse_u128(s) ==
    IF s = <<>> THEN NoId
    ELSE IF Len(s) = 1 /\ Head(s) \in {"+", "-"} THEN NoId
    ELSE IF Head(s) = "+" THEN ParseDigits(Tail(s), 0)
    ELSE ParseDigits(s, 0)

\* --------------------------------------------------- bincode record layout

Take(b, n) == SubSeq(b, 1, n)

Drop(b, n) == SubSeq(b, n + 1, Len(b))

\* a fixed-width little-endian unsigned integer
RECURSIVE LE(_, _)
LE(n, width) ==
    IF width = 0 THEN <<>> ELSE <<n % 256>> \o LE(n \div 256, width - 1)

RECURSIVE FromLE(_)
FromLE(b) ==
    IF b = <<>> THEN 0 ELSE Head(b) + 256 * FromLE(Tail(b))

\* the derived Event value of src/src/event.rs
Event(name, description, date_time, id) ==
    [name |-> name, description |-> description, date_time |-> date_time, id |-> id]

\* chrono's serde form of DateTime<Utc> is its text form; the model's
\* timestamps are naturals and their text is ASCII decimal
RECURSIVE TimeText(_)
TimeText(t) ==
    IF t < 10 THEN <<48 + t>> ELSE TimeText(t \div 10) \o <<48 + (t % 10)>>

RECURSIVE ParseTime(_, _)
ParseTime(s, acc) ==
    IF s = <<>> THEN acc
    ELSE IF Head(s) < 48 \/ Head(s) > 57 THEN -1
    ELSE ParseTime(Tail(s), acc * 10 + (Head(s) - 48))

\* String: u64 length, then the UTF-8 bytes
EncStr(s) == LE(Len(s), 8) \o s

\* mutant: an empty description is written as an absent one
EncOptEmptyIsNone(d) ==
    IF d = None \/ d[2] = <<>> THEN <<0>> ELSE <<1>> \o EncStr(d[2])

\* Option<String>: tag byte 0, or tag byte 1 and the String
EncOpt(d) == IF d = None THEN <<0>> ELSE <<1>> \o EncStr(d[2])

\* bincode::serialize(self): the four fields in declaration order
serialize(e) ==
    EncStr(e.name) \o EncOpt(e.description)
        \o EncStr(TimeText(e.date_time)) \o LE(e.id, 16)

DecErr == [ok |-> FALSE]

\* reads a String: fails on a short buffer, on a length beyond the buffer
\* and on bytes that are not UTF-8 (ASCII here)
DecStr(b) ==
    IF Len(b) < 8 THEN DecErr
    ELSE IF \E i \in 4..8 : b[i] # 0 THEN DecErr
    ELSE LET n == FromLE(Take(b, 3))
             r == Drop(b, 8)
         IN  IF Len(r) < n THEN DecErr
             ELSE IF \E i \in 1..n : r[i] > 127 THEN DecErr
             ELSE [ok |-> TRUE, val |-> Take(r, n), rest |-> Drop(r, n)]

DecOpt(b) ==
    IF b = <<>> THEN DecErr
    ELSE IF Head(b) = 0 THEN [ok |-> TRUE, val |-> None, rest |-> Tail(b)]
    ELSE IF Head(b) = 1
         THEN LET s == DecStr(Tail(b))
              IN  IF s.ok THEN [ok |-> TRUE, val |-> Some(s.val), rest |-> s.rest]
                  ELSE DecErr
    ELSE DecErr

DecTime(b) ==
    LET s == DecStr(b)
    IN  IF ~s.ok THEN DecErr
        ELSE IF s.val = <<>> \/ ParseTime(s.val, 0) < 0 THEN DecErr
        ELSE [ok |-> TRUE, val |-> ParseTime(s.val, 0), rest |-> s.rest]

DecId(b) ==
    IF Len(b) < 16 THEN DecErr
    ELSE [ok |-> TRUE, val |-> FromLE(Take(b, 16)), rest |-> Drop(b, 16)]

\* bincode::deserialize(&bytes): the four fields in order; trailing bytes
\* are allowed by the top-level function
deserialize(b) ==
    LET n == DecStr(b)
    IN  IF ~n.ok THEN DecErr
        ELSE LET d == DecOpt(n.rest)
             IN  IF ~d.ok THEN DecErr
                 ELSE LET t == DecTime(d.rest)
                      IN  IF ~t.ok THEN DecErr
                          ELSE LET i == DecId(t.rest)
                               IN  IF ~i.ok THEN DecErr
                                   ELSE [ok |-> TRUE,
                                         val |-> Event(n.val, d.val, t.val, i.val)]

\* ------------------------------------------------------ the events directory

EmptyDir == [n \in {} |-> [kind |-> "file", bytes |-> <<>>]]

File(bytes) == [kind |-> "file", bytes |-> bytes]

Directory == [kind |-> "dir", bytes |-> <<>>]

\* mutant: an existing entry is kept as it is
PutIfAbsent(d, n, x) ==
    [m \in DOMAIN d \cup {n} |-> IF m \in DOMAIN d THEN d[m] ELSE x]

\* the directory d with entry n set to x
Put(d, n, x) == [m \in DOMAIN d \cup {n} |-> IF m = n THEN x ELSE d[m]]

\* mutant: the removal empties the directory
RemoveAll(d, n) == [m \in {} |-> d[m]]

\* the directory d without entry n
Remove(d, n) == [m \in DOMAIN d \ {n} |-> d[m]]

\* mutant: only the files whose name parses as an id are let through
RegularFilesNumeric(d) ==
    {n \in DOMAIN d : d[n].kind = "file" /\ parse_u128(n) # NoId}

\* the entries entry.file_type()?.is_file() lets through
RegularFiles(d) == {n \in DOMAIN d : d[n].kind = "file"}

\* mutant: the file name keeps only the last digit of the id
pathLastDigit(e) == to_string(e.id % 10)

\* app.events_dir.join(self.id.to_string())
path(e) == to_string(e.id)

\* what a call leaves in "last"
Result(op, ok, ev, out) == [op |-> op, ok |-> ok, ev |-> ev, out |-> out]

NoOut == [n \in {} |-> 0]

\* ------------------------------------------------------------- operations

\* mutant: only regular files are scanned, as in read_events
get_idsFilesOnly(d) ==
    {parse_u128(n) : n \in {m \in RegularFiles(d) : parse_u128(m) # NoId}}

\* mutant: a name that does not parse counts as id 0
get_idsZero(d) ==
    {IF parse_u128(n) = NoId THEN 0 ELSE parse_u128(n) : n \in DOMAIN d}

\* get_ids: the names of all entries, of any kind, that parse as a u128
get_ids(d) == {parse_u128(n) : n \in {m \in DOMAIN d : parse_u128(m) # NoId}}

\* mutant: the first draw is returned without the membership test
IdAcceptedAny(ids, id) == TRUE

\* the test of generate_id's loop that ends it with the drawn id
IdAccepted(ids, id) == id \notin ids

\* the ids generate_id's loop can end with, given the directory it scanned
Generable(d) == {id \in Ids : IdAccepted(get_ids(d), id)}

\* fs::create_dir_all(&app.events_dir): Ok when the directory is there or
\* can be made; a regular file in place of the events directory makes mkdir
\* fail with AlreadyExists, one in place of the data directory with
\* NotADirectory
create_dir_all(exists, o) ==
    IF exists \/ o = "none" THEN "Ok"
    ELSE IF o = "events" THEN "AlreadyExists"
    ELSE "NotADirectory"

\* utils::create_dirs: the error of fs::create_dir_all is returned unless
\* its kind is AlreadyExists
create_dirs ==
    LET r == create_dir_all(dirExists, obstacle)
    IN  /\ dirExists' = (dirExists \/ r = "Ok")
        /\ last' = Result("create_dirs", r \in {"Ok", "AlreadyExists"}, {}, NoOut)
        /\ UNCHANGED <<dir, held, live, used, obstacle, procs>>

\* App::new: the two paths are composed, nothing is read or written
app_new ==
    /\ last' = Result("app_new", TRUE, {}, NoOut)
    /\ UNCHANGED <<dirExists, dir, held, live, used, obstacle, procs>>

\* the environment leaves a regular file where the events directory ("events")
\* or the data directory ("data") would be
place_obstacle(o) ==
    /\ ~dirExists
    /\ obstacle = "none"
    /\ obstacle' = o
    /\ last' = Result("place_obstacle", TRUE, {}, NoOut)
    /\ UNCHANGED <<dirExists, dir, held, live, used, procs>>

\* mutant: a missing events directory is made on the way
newBootstraps(name, description, date_time) ==
    /\ \E id \in Generable(dir) :
          /\ held' = held \cup {Event(name, description, date_time, id)}
          /\ last' = Result("new", TRUE,
                            {Event(name, description, date_time, id)}, NoOut)
    /\ dirExists' = TRUE
    /\ UNCHANGED <<dir, live, used, obstacle, procs>>

\* mutant: the event is written to its file as it is built
newStoring(name, description, date_time) ==
    /\ IF ~dirExists
       THEN /\ last' = Result("new", FALSE, {}, NoOut)
            /\ UNCHANGED <<held, dir>>
       ELSE \E id \in Generable(dir) :
              /\ held' = held \cup {Event(name, description, date_time, id)}
              /\ dir' = Put(dir, to_string(id),
                            File(serialize(Event(name, description, date_time, id))))
              /\ last' = Result("new", TRUE,
                                {Event(name, description, date_time, id)}, NoOut)
    /\ UNCHANGED <<dirExists, live, used, obstacle, procs>>

\* Event::new with generate_id: one directory scan, then draws until one is
\* accepted; an unreadable directory is an error and nothing is built
new(name, description, date_time) ==
    /\ IF ~dirExists
       THEN /\ last' = Result("new", FALSE, {}, NoOut)
            /\ UNCHANGED held
       ELSE \E id \in Generable(dir) :
              /\ held' = held \cup {Event(name, description, date_time, id)}
              /\ last' = Result("new", TRUE,
                                {Event(name, description, date_time, id)}, NoOut)
    /\ UNCHANGED <<dirExists, dir, live, used, obstacle, procs>>

\* whether fs::write(path, bytes) can succeed: the directory exists and the
\* path is not a directory
CanWrite(d, n) == dirExists /\ (n \in DOMAIN d => d[n].kind = "file")

\* Event::store: serialize, then a plain fs::write to <events_dir>/<id>
store(e) ==
    /\ IF CanWrite(dir, path(e))
       THEN /\ dir' = Put(dir, path(e), File(serialize(e)))
            /\ live' = live \cup {e}
            /\ used' = used \cup {e}
            /\ last' = Result("store", TRUE, {e}, NoOut)
       ELSE /\ last' = Result("store", FALSE, {e}, NoOut)
            /\ UNCHANGED <<dir, live, used>>
    /\ UNCHANGED <<dirExists, held, obstacle, procs>>

\* mutant: a missing file is not an error
CanRemoveMissing(d, n) == dirExists

\* whether fs::remove_file(path) can succeed: a file of that name exists
CanRemove(d, n) == dirExists /\ n \in DOMAIN d /\ d[n].kind = "file"

\* Event::delete_file: fs::remove_file(<events_dir>/<id>)
delete_file(e) ==
    /\ IF CanRemove(dir, path(e))
       THEN /\ dir' = Remove(dir, path(e))
            /\ live' = live \ {e}
            /\ used' = used \cup {e}
            /\ last' = Result("delete_file", TRUE, {e}, NoOut)
       ELSE /\ last' = Result("delete_file", FALSE, {e}, NoOut)
            /\ UNCHANGED <<dir, live, used>>
    /\ UNCHANGED <<dirExists, held, obstacle, procs>>

\* the Vec read_events returns, as file name -> decoded event (the order of
\* the Vec is the directory's listing order, which nothing fixes)
Decoded(d) == [n \in RegularFiles(d) |-> deserialize(d[n].bytes).val]

\* whether every regular file decodes, so that no "?" leaves read_events
AllDecode(d) == \A n \in RegularFiles(d) : deserialize(d[n].bytes).ok

\* read_events: every regular file is read and decoded; the first failure
\* returns the error and drops what was collected
read_events ==
    /\ IF dirExists /\ AllDecode(dir)
       THEN last' = Result("read_events", TRUE, {}, Decoded(dir))
       ELSE last' = Result("read_events", FALSE, {}, NoOut)
    /\ UNCHANGED <<dirExists, dir, held, live, used, obstacle, procs>>

\* the environment puts an entry that is no stored event into the events
\* directory (another program's file, a sub-directory, a damaged record),
\* one at a time
foreign_entry(n, x) ==
    /\ dirExists
    /\ n \notin DOMAIN dir
    /\ DOMAIN dir \cap ForeignNames = {}
    /\ dir' = Put(dir, n, x)
    /\ last' = Result("foreign_entry", TRUE, {}, NoOut)
    /\ UNCHANGED <<dirExists, held, live, used, obstacle, procs>>

\* the caller holds fewer than n events
Room(n) == Cardinality(held) < n

\* ---------------------------------------- the same calls, step by step,
\* ---------------------------------------- by processes that share the directory

Procs == {1, 2}

Other(p) == CHOOSE q \in Procs : q # p

\* a process that has not called anything yet: its position, the ids its
\* scan collected, the event it holds, the result of its last call and
\* (history) where the other process was when it last wrote or removed
Idle == [pc |-> "start", ids |-> {}, ev |-> {}, ok |-> TRUE, saw |-> "none"]

\* the name process p gives its event
ProcName(p) == IF p = 1 THEN <<97>> ELSE <<98>>

\* generate_id, first statement: get_ids(app)?, one scan of the directory
scan(p) ==
    /\ procs[p].pc = "start"
    /\ IF dirExists
       THEN procs' = [procs EXCEPT ![p].pc = "scanned", ![p].ids = get_ids(dir)]
       ELSE procs' = [procs EXCEPT ![p].pc = "failed", ![p].ok = FALSE]
    /\ UNCHANGED <<dirExists, dir, held, live, used, last, obstacle>>

\* generate_id, one turn of the loop with the draw id: the id is returned
\* and Event::new builds the event, or the loop goes round again
draw(p, id) ==
    /\ procs[p].pc = "scanned"
    /\ IF IdAccepted(procs[p].ids, id)
       THEN procs' = [procs EXCEPT ![p].pc = "built",
                                   ![p].ev = {Event(ProcName(p), None, 0, id)}]
       ELSE UNCHANGED procs
    /\ UNCHANGED <<dirExists, dir, held, live, used, last, obstacle>>

\* a process takes one of the events read_events returns
adopt(p, n) ==
    /\ procs[p].pc = "start"
    /\ dirExists /\ AllDecode(dir)
    /\ n \in RegularFiles(dir)
    /\ procs' = [procs EXCEPT ![p].pc = "stored", ![p].ev = {Decoded(dir)[n]}]
    /\ UNCHANGED <<dirExists, dir, held, live, used, last, obstacle>>

\* Event::store by process p
pstore(p) ==
    /\ procs[p].pc = "built"
    /\ \E e \in procs[p].ev :
          IF CanWrite(dir, path(e))
          THEN /\ dir' = Put(dir, path(e), File(serialize(e)))
               /\ procs' = [procs EXCEPT ![p].pc = "stored",
                                           ![p].saw = procs[Other(p)].pc]
          ELSE /\ procs' = [procs EXCEPT ![p].pc = "failed", ![p].ok = FALSE]
               /\ UNCHANGED dir
    /\ UNCHANGED <<dirExists, held, live, used, last, obstacle>>

\* Event::delete_file by process p, the call: the path is composed
call_delete(p) ==
    /\ procs[p].pc = "stored"
    /\ procs' = [procs EXCEPT ![p].pc = "deleting"]
    /\ UNCHANGED <<dirExists, dir, held, live, used, last, obstacle>>

\* Event::delete_file by process p, fs::remove_file and the return
remove(p) ==
    /\ procs[p].pc = "deleting"
    /\ \E e \in procs[p].ev :
          IF CanRemove(dir, path(e))
          THEN /\ dir' = Remove(dir, path(e))
               /\ procs' = [procs EXCEPT ![p].pc = "deleted", ![p].ok = TRUE,
                                           ![p].saw = procs[Other(p)].pc]
          ELSE /\ procs' = [procs EXCEPT ![p].pc = "deleted", ![p].ok = FALSE,
                                           ![p].saw = procs[Other(p)].pc]
               /\ UNCHANGED dir
    /\ UNCHANGED <<dirExists, held, live, used, last, obstacle>>

\* --------------------------------------------------------- specifications

Init ==
    /\ dirExists = FALSE
    /\ dir = EmptyDir
    /\ held = {}
    /\ live = {}
    /\ used = {}
    /\ last = Result("init", TRUE, {}, NoOut)
    /\ obstacle = "none"
    /\ procs = [p \in Procs |-> Idle]

\* the values of rand::random() tried in the runs of the program alone:
\* the two ends of the id space and of the one-digit names
Draws == {0, 1, 9, IdMax}

\* the id of the event the step has built is among the draws S
Drawn(S) == \A e \in held' \ held : e.id \in S

Next ==
    \/ create_dirs
    \/ \E name \in Names, description \in Descriptions, date_time \in Times :
          Room(MaxEvents) /\ new(name, description, date_time) /\ Drawn(Draws)
    \/ \E e \in held : store(e)
    \/ \E e \in held : delete_file(e)
    \/ read_events

\* the program alone, on a directory nothing else touches
Spec == Init /\ [][Next]_vars

NextForeign ==
    \/ create_dirs
    \/ \E name \in Names, description \in Descriptions, date_time \in Times :
          Room(MaxEventsForeign) /\ new(name, description, date_time)
    \/ \E e \in held : store(e)
    \/ \E e \in held : delete_file(e)
    \/ read_events
    \/ \E n \in ForeignNames, x \in ForeignEntries : foreign_entry(n, x)

\* the program on a directory that also receives foreign entries
SpecForeign == Init /\ [][NextForeign]_vars

NextRT ==
    \/ create_dirs
    \/ \E name \in NamesRT, description \in DescriptionsRT, date_time \in TimesRT :
          Room(1) /\ new(name, description, date_time)
    \/ \E e \in held : store(e)
    \/ \E e \in held : delete_file(e)
    \/ read_events

\* one event at a time, over the wider argument sets
SpecRT == Init /\ [][NextRT]_vars

NextBoot ==
    \/ app_new
    \/ \E o \in {"events", "data"} : place_obstacle(o)
    \/ create_dirs
    \/ \E name \in Names, description \in Descriptions, date_time \in Times :
          Room(1) /\ new(name, description, date_time)
    \/ \E e \in held : store(e)
    \/ \E e \in held : delete_file(e)
    \/ read_events

\* start-up on a path that may be taken: the Storage Context is built, the
\* directories are ensured, events are built and stored
SpecBoot == Init /\ [][NextBoot]_vars

\* a bootstrapped events directory, empty or with a sub-directory that has
\* a numeric name
InitConc ==
    /\ dirExists = TRUE
    /\ dir \in {EmptyDir, Put(EmptyDir, <<"7">>, Directory)}
    /\ held = {}
    /\ live = {}
    /\ used = {}
    /\ last = Result("init", TRUE, {}, NoOut)
    /\ obstacle = "none"
    /\ procs = [p \in Procs |-> Idle]

NextConc ==
    \/ \E p \in Procs : scan(p)
    \/ \E p \in Procs, id \in Ids : draw(p, id)
    \/ \E p \in Procs : \E n \in DOMAIN dir : adopt(p, n)
    \/ \E p \in Procs : pstore(p)
    \/ \E p \in Procs : call_delete(p)
    \/ \E p \in Procs : remove(p)
    \/ read_events

\* two processes on one events directory, with no coordination
SpecConc == InitConc /\ [][NextConc]_vars

\* the events directory with the files of the events of the ids in S
DirOf(S) ==
    [n \in {to_string(id) : id \in S} |->
        File(serialize(Event(<<97>>, None, 0, parse_u128(n))))]

\* a bootstrapped events directory that holds any set of stored events
InitLoop ==
    /\ dirExists = TRUE
    /\ \E S \in SUBSET Ids : dir = DirOf(S)
    /\ held = {}
    /\ live = {}
    /\ used = {}
    /\ last = Result("init", TRUE, {}, NoOut)
    /\ obstacle = "none"
    /\ procs = [p \in Procs |-> Idle]

\* some turn of the loop of process 1
DrawAny == \E id \in Ids : draw(1, id)

NextLoop ==
    \/ scan(1)
    \/ DrawAny

\* one call of generate_id; the draws are fair: a turn of the loop that can
\* end it is not put off for ever
SpecLoop == InitLoop /\ [][NextLoop]_vars /\ WF_vars(DrawAny)

\* ------------------------------------------------------------ the claims

Range(f) == {f[x] : x \in DOMAIN f}

\* the step just taken was a successful call of op
Did(op) == last.op = op /\ last.ok

\* C1: an id returned by id generation differs from every id parsed from
\* the name of an entry that is in the events directory at the time of the
\* call, so ids generated in sequence, each followed by the creation of the
\* file it names, never repeat.
C1_GeneratedIdIsFresh ==
    Did("new") =>
        \A e \in last.ev : \A n \in DOMAIN dir : parse_u128(n) # e.id

\* a generation that succeeded against a directory that already holds the
\* file of an earlier generated id
C1_Witness ==
    /\ Did("new")
    /\ \E e \in held : path(e) \in DOMAIN dir /\ e \notin last.ev

\* C2: whenever Store(e) runs, no file named by e's id exists unless an
\* earlier Store of e itself wrote it, so Store never overwrites the record
\* of another event.
C2_StoreNeverOverwritesAnother ==
    [][(last'.op = "store" /\ last'.ok) =>
          \A e \in last'.ev :
             path(e) \in DOMAIN dir => dir[path(e)] = File(serialize(e))]_vars

\* the events es have pairwise distinct ids
DistinctIds(es) == \A a, b \in es : a.id = b.id => a = b

\* C3: when the events stored and deleted have pairwise distinct ids,
\* ReadAll succeeds and returns exactly the events stored and not deleted
\* since: none missing, none extra, one entry each.
C3_ReadAllReturnsTheLiveEvents ==
    (last.op = "read_events" /\ dirExists /\ DistinctIds(used)) =>
        /\ last.ok
        /\ Range(last.out) = live
        /\ Cardinality(DOMAIN last.out) = Cardinality(live)

\* a read that returned two stored events, one of them with a two-digit id
C3_Witness ==
    /\ Did("read_events")
    /\ DistinctIds(used)
    /\ Cardinality(live) = 2
    /\ \E e \in live : e.id >= 10

\* C4: Store followed by ReadAll on an otherwise empty events directory
\* returns a single event equal to the stored one in every field, whatever
\* its name, description (absent, empty or not), timestamp and id.
C4_StoreThenReadAllRoundTrips ==
    (last.op = "read_events" /\ live # {}) =>
        /\ last.ok
        /\ Cardinality(DOMAIN last.out) = 1
        /\ Range(last.out) = live

\* the event read back has a description that is present and empty, an
\* empty name and a two-digit id
C4_Witness ==
    /\ Did("read_events")
    /\ \E e \in Range(last.out) :
          e.description = Some(<<>>) /\ e.name = <<>> /\ e.id >= 10 /\ e.date_time >= 10

\* every entry other than n is the same in d1 and d2
SameExcept(d1, d2, n) ==
    /\ DOMAIN d1 \ {n} = DOMAIN d2 \ {n}
    /\ \A m \in DOMAIN d1 \ {n} : d1[m] = d2[m]

\* C5: after a successful Store(e) the file named by e's id exists, after a
\* successful Delete(e) it does not, and both leave every other entry of
\* the events directory as it was.
C5_StoreAndDeleteTouchOneEntry ==
    [][/\ (last'.op = "store" /\ last'.ok) =>
             \A e \in last'.ev :
                /\ to_string(e.id) \in DOMAIN dir'
                /\ dir'[to_string(e.id)].kind = "file"
                /\ SameExcept(dir, dir', to_string(e.id))
       /\ (last'.op = "delete_file" /\ last'.ok) =>
             \A e \in last'.ev :
                /\ to_string(e.id) \notin DOMAIN dir'
                /\ SameExcept(dir, dir', to_string(e.id))]_vars

\* a successful delete that left the file of another event behind
C5_Witness ==
    /\ Did("delete_file")
    /\ \A e \in last.ev : to_string(e.id) \notin DOMAIN dir
    /\ \E e \in live : to_string(e.id) \in DOMAIN dir

\* C6: Delete(e) succeeds exactly when a file named by e's id exists; a
\* failed Delete leaves the events directory unchanged; a Delete of the
\* same event right after a successful one fails.
C6_DeleteFailsWithoutFile ==
    [][/\ last'.op = "delete_file" =>
             \A e \in last'.ev :
                /\ last'.ok <=> /\ dirExists
                                /\ to_string(e.id) \in DOMAIN dir
                                /\ dir[to_string(e.id)].kind = "file"
                /\ ~last'.ok => dir' = dir /\ dirExists' = dirExists
       /\ (Did("delete_file") /\ last'.op = "delete_file" /\ last'.ev = last.ev)
             => ~last'.ok]_vars

\* a delete that failed for want of the event's file, in a directory that
\* holds the file of another event
C6_Witness ==
    /\ last.op = "delete_file"
    /\ ~last.ok
    /\ dirExists
    /\ \A e \in last.ev : to_string(e.id) \notin DOMAIN dir
    /\ dir # EmptyDir

\* C7: when some regular file of the events directory does not decode as an
\* Event, ReadAll fails and returns no event, whatever else the directory
\* holds and whatever the name of that file.
C7_ReadAllFailsOnOneBadFile ==
    (/\ last.op = "read_events"
     /\ \E n \in DOMAIN dir :
           dir[n].kind = "file" /\ ~deserialize(dir[n].bytes).ok)
        => ~last.ok /\ last.out = NoOut

\* a failed read of a directory that holds a stored event and a file with
\* a numeric name that does not decode
C7_Witness ==
    /\ last.op = "read_events"
    /\ ~last.ok
    /\ \E n \in DOMAIN dir :
          /\ dir[n].kind = "file"
          /\ ~deserialize(dir[n].bytes).ok
          /\ parse_u128(n) # NoId
    /\ \E e \in live : to_string(e.id) \in DOMAIN dir

\* C8: entries whose name does not parse as an id are ignored by the scan:
\* with the directory there Construct never fails, and every id that no
\* entry name parses to can still be generated.
C8_UnparsedNamesAreIgnored ==
    /\ (last.op = "new" /\ dirExists) => last.ok
    /\ dirExists =>
          {id \in Ids : \A n \in DOMAIN dir : parse_u128(n) # id}
              \subseteq Generable(dir)

\* a Construct that succeeded next to an entry whose name does not parse
C8_Witness ==
    /\ Did("new")
    /\ \E n \in DOMAIN dir : parse_u128(n) = NoId

\* C9: every file of the events directory is named by the decimal string of
\* the id of the event it decodes to, and no two files decode to events
\* with the same id.
C9_FilesAreNamedByTheirId ==
    LET rec == [n \in DOMAIN dir |-> deserialize(dir[n].bytes)]
    IN  /\ \A n \in DOMAIN dir :
              /\ dir[n].kind = "file"
              /\ rec[n].ok
              /\ to_string(rec[n].val.id) = n
        /\ \A n, m \in DOMAIN dir : rec[n].val.id = rec[m].val.id => n = m

\* two files, one of them with a two-digit name
C9_Witness ==
    /\ Cardinality(DOMAIN dir) = 2
    /\ \E n \in DOMAIN dir : Len(n) = 2

\* C10: an id's file name parses back to the id, and every entry name that
\* the scan parses to an id is the file name Store and Delete use for it.
C10_NamesAndIdsCorrespond ==
    /\ \A id \in Ids : parse_u128(to_string(id)) = id
    /\ \A n \in DOMAIN dir :
          parse_u128(n) # NoId => to_string(parse_u128(n)) = n

\* the file of event e, as Store writes it, is in directory d
OnDisk(d, e) == to_string(e.id) \in DOMAIN d /\ d[to_string(e.id)] = File(serialize(e))

\* C11: Construct and ReadAll leave the events directory and its entries
\* as they were, whether they succeed or fail, and the file of an event
\* comes into being only by a Store of that event.
C11_ConstructAndReadAllWriteNothing ==
    [][/\ last'.op \in {"new", "read_events"} =>
             dir' = dir /\ dirExists' = dirExists
       /\ \A e \in held' :
             (OnDisk(dir', e) /\ ~OnDisk(dir, e)) =>
                 (last'.op = "store" /\ last'.ok /\ e \in last'.ev)]_vars

\* a Construct that succeeded next to other entries and left no file of the
\* event it returned
C11_Witness ==
    /\ Did("new")
    /\ dir # EmptyDir
    /\ \A e \in last.ev : to_string(e.id) \notin DOMAIN dir

\* C18: a Store leaves in the file named by the id exactly the event it
\* was given, whatever the file held before, and a second Store of the same
\* event right after the first changes nothing.
C18_StoreIsIdempotentLastWriterWins ==
    /\ [](Did("store") =>
             \A e \in last.ev :
                /\ OnDisk(dir, e)
                /\ deserialize(dir[to_string(e.id)].bytes) = [ok |-> TRUE, val |-> e])
    /\ [][(Did("store") /\ last'.op = "store" /\ last'.ev = last.ev) =>
             last'.ok /\ dir' = dir]_vars

\* a Store over the file of another event with the same id, stored before
C18_Witness ==
    /\ Did("store")
    /\ \E e \in last.ev : \E f \in live \ {e} : f.id = e.id /\ OnDisk(dir, e)

\* C12: a Bootstrap that returns success leaves the events directory
\* existing, on whatever state it is called.
C12_BootstrapLeavesTheDirectory ==
    Did("create_dirs") => dirExists

\* C13: building a Storage Context succeeds and touches nothing on disk,
\* and while the events directory does not exist Construct fails, returns
\* no event and creates nothing.
C13_NoDirectoryNoEvent ==
    [][/\ last'.op = "app_new" =>
             /\ last'.ok
             /\ dir' = dir /\ dirExists' = dirExists /\ obstacle' = obstacle
       /\ (last'.op = "new" /\ ~dirExists) =>
             /\ ~last'.ok
             /\ last'.ev = {}
             /\ held' = held
             /\ dir' = dir /\ dirExists' = dirExists /\ obstacle' = obstacle]_vars

\* a Construct that failed for want of the events directory, and made none
C13_Witness ==
    /\ last.op = "new"
    /\ ~last.ok
    /\ ~dirExists
    /\ held = {}
    /\ dir = EmptyDir

\* the events of processes p and q have the same id
SameId(p, q) == \E e \in procs[p].ev : \E f \in procs[q].ev : e.id = f.id

\* both processes built events with one id before either stored, p stored
\* first and q after it, and neither has gone on to delete
Collided(p, q) ==
    /\ procs[p].pc = "stored" /\ procs[q].pc = "stored"
    /\ procs[p].saw = "built" /\ procs[q].saw = "stored"
    /\ SameId(p, q)
    /\ procs[p].ev # procs[q].ev

\* C14: when two processes have built events with the same id before either
\* stored, the later Store overwrites the file of the earlier one: the file
\* holds the later event and ReadAll returns it without the earlier one.
C14_LaterStoreOverwrites ==
    \A p \in Procs :
       Collided(p, Other(p)) =>
          /\ \A e \in procs[Other(p)].ev : OnDisk(dir, e)
          /\ \A e \in procs[p].ev : ~OnDisk(dir, e)
          /\ (Did("read_events") /\ procs[Other(p)].ev \subseteq Range(last.out)) =>
                procs[p].ev \cap Range(last.out) = {}

\* the interleaving: the same id twice, two Stores, and a ReadAll that
\* returns one event where two were stored
C14_Witness ==
    \E p \in Procs :
       /\ Collided(p, Other(p))
       /\ Did("read_events")
       /\ procs[Other(p)].ev \subseteq Range(last.out)
       /\ procs[p].ev \cap Range(last.out) = {}
       /\ Cardinality(RegularFiles(dir)) = 1

\* C15: when the Delete calls of two processes for one stored event
\* overlap, one of them succeeds, the other fails, and the file is gone.
C15_OneOfTwoDeletesSucceeds ==
    \A p \in Procs :
       (/\ procs[p].pc = "deleted" /\ procs[Other(p)].pc = "deleted"
        /\ procs[p].saw = "deleting"
        /\ SameId(p, Other(p)))
          => /\ procs[p].ok # procs[Other(p)].ok
             /\ \A e \in procs[p].ev : to_string(e.id) \notin DOMAIN dir

\* two overlapping Deletes of one and the same event, both returned
C15_Witness ==
    \E p \in Procs :
       /\ procs[p].pc = "deleted" /\ procs[Other(p)].pc = "deleted"
       /\ procs[p].saw = "deleting"
       /\ procs[p].ev = procs[Other(p)].ev
       /\ procs[p].ok /\ ~procs[Other(p)].ok

\* C16: with fair draws the loop of generate_id returns an id whenever the
\* scan left an id of the id space free, and when the scan found every id
\* in use no turn of the loop returns.
C16_LoopReturnsIffAnIdIsFree ==
    /\ (procs[1].pc = "scanned" /\ procs[1].ids # Ids) ~> (procs[1].pc = "built")
    /\ [][(procs[1].pc = "scanned" /\ procs[1].ids = Ids) =>
             procs'[1].pc = "scanned"]_vars

\* the loop returned the one id that was free
C16_Witness ==
    /\ procs[1].pc = "built"
    /\ Cardinality(procs[1].ids) = IdMax
    /\ \A e \in procs[1].ev : e.id \notin procs[1].ids

====
